---- MODULE Spec2Model ----
(***************************************************************************)
(* Model of the idling-violation map: the App root (data load, currentTime *)
(* and speed state), the RangeInput playback control (play/pause, scrub,   *)
(* the requestAnimationFrame loop and its effect) and the three layers     *)
(* (point, cluster, heatmap) that filter and encode the events.            *)
(*                                                                         *)
(* Times are milliseconds counted from the local midnight of a reference   *)
(* day 0 instead of from 1970: every computation of the program on times   *)
(* is a difference, a comparison or a startOfDay, so the origin does not   *)
(* matter, and the values stay in TLC's integer range.  There is no        *)
(* daylight-saving change inside the modelled days.                        *)
(***************************************************************************)
EXTENDS Integers, Sequences, FiniteSets, TLC

VARIABLES
    fetchState,       \* App fetchData: "pending", "ok", "failed" or "nofeatures"
    data,             \* App state `data`: the list of features, or Undefined
    view,             \* the React root: "shown", or "crashed" once a render threw
    currentTime,      \* App state `currentTime`: Null or an instant
    speed,            \* App state `speed`
    mounted,          \* RangeInput: "no" (not yet rendered), "yes", "gone"
    isPlaying,        \* RangeInput state `isPlaying`
    rendered,         \* props and state captured by the closures of the last
                      \* committed render of RangeInput (animate, handlers)
    effectPending,    \* a commit changed the effect's deps; effect not yet run
    animationFrameId, \* ref animationFrameId.current (0 = undefined)
    lastUpdateTime,   \* ref lastUpdateTime.current
    frames,           \* callbacks registered with requestAnimationFrame
    now,              \* timestamp of the latest animation frame
    ideal,            \* history: where uninterrupted playback should be
    lastFrameAt,      \* history: timestamp of the previous frame of this playback
    lastScrub,        \* history: value of the latest scrub not followed by play
    halted,           \* history: "pause"/"unmount" since the latest of them
    clockSpeed,       \* history: speed of the animate that wrote lastUpdateTime
    zoom,             \* layer prop `zoom`
    scatter,          \* ViolationLayer.renderLayers output
    cluster,          \* ClusterViolationLayer fields and renderLayers output
    heatmap           \* ViolationHeatmapLayer.renderLayers output

appVars    == <<fetchState, data, view, currentTime, speed>>
rangeVars  == <<mounted, isPlaying, rendered, effectPending, animationFrameId,
                lastUpdateTime, frames, now>>
histVars   == <<ideal, lastFrameAt, lastScrub, halted, clockSpeed>>
layerVars  == <<zoom, scatter, cluster, heatmap>>
vars       == <<appVars, rangeVars, histVars, layerVars>>

\* null / undefined / "unset": no instant, count or id of the model is negative
Null == -1

-----------------------------------------------------------------------------
(* Bounds of the model                                                     *)

MaxFrames == 4      \* animation frames fit in MaxFrames * FrameMs of real time
FrameMs   == 250    \* real time between two animation frames: FrameMs or twice it
MaxDay    == 3      \* events fall on days 1..MaxDay
MaxEvents == 3      \* length of the event lists the layers are given

-----------------------------------------------------------------------------
(* Program constants                                                       *)

MS_PER_DAY   == 86400000
InitialSpeed == 7
SpeedMin     == 1
SpeedMax     == 30

FrameDeltas  == {FrameMs, 2 * FrameMs}
SpeedChoices == {SpeedMin, InitialSpeed, SpeedMax}
TenHours     == 10 * (MS_PER_DAY \div 24)

-----------------------------------------------------------------------------
(* Dates                                                                   *)

\* A ViolationDate string is kept as the calendar day and the time of day
\* written in it.  parseISO / new Date of a date-time string without offset:
\* the local instant.
parseISO(s) == s.day * MS_PER_DAY + s.tod

\* date-fns startOfDay: the local midnight on or before the instant.
startOfDay(t) == t - (t % MS_PER_DAY)

Min(a, b) == IF a <= b THEN a ELSE b
Max(a, b) == IF a >= b THEN a ELSE b

isAfter(a, b) == a > b
isSameDay(a, b) == startOfDay(a) = startOfDay(b)

\* a feature, by the properties the program reads; "" is an absent Respondent
Feature(d, t, r) == [ViolationDate |-> [day |-> d, tod |-> t], Respondent |-> r]

-----------------------------------------------------------------------------
(* App                                                                     *)

\* Infinity: above every instant and every count of the model
Infinity == (MaxDay + 2) * MS_PER_DAY

RECURSIVE RangeOf(_, _)
\* the reduce of timeRange over the features, from [Infinity, -Infinity]
RangeOf(feats, range) ==
    IF feats = <<>> THEN range
    ELSE LET timestamp == startOfDay(parseISO(Head(feats).ViolationDate))
         IN RangeOf(Tail(feats), <<Min(range[1], timestamp), Max(range[2], timestamp)>>)

\* undefined: a value that is no list (its domain is not 1..n)
Undefined == [i \in {0} |-> 0]

\* the memo timeRange: <<>> stands for its null
NoRange == <<>>
timeRange == IF Len(data) = 0 THEN NoRange ELSE RangeOf(data, <<Infinity, -Infinity>>)

minEventDay == timeRange[1]
maxEventDay == timeRange[2]

\* The documents the fetch can deliver: a single-day data set and one that
\* spans days 1..MaxDay.
Documents ==
    { <<Feature(1, 0, "A")>>,
      <<Feature(MaxDay, 0, "A"), Feature(1, 0, "")>> }

-----------------------------------------------------------------------------
(* RangeInput: what a render captures, the frame registry, the effect      *)

\* The props and state a render of RangeInput closes over.
Props(value, spd, playing) ==
    [value |-> value, min |-> minEventDay, max |-> maxEventDay,
     speed |-> spd, isPlaying |-> playing]

\* The mutable parts of a mounted RangeInput, as one record.
Control ==
    [rendered |-> rendered, effectPending |-> effectPending,
     animationFrameId |-> animationFrameId, lastUpdateTime |-> lastUpdateTime,
     frames |-> frames]

\* Frame ids are only ever compared by cancelAnimationFrame, and every
\* request overwrites the ref with the id it returns, so a fresh id is any id
\* no registered callback holds.
FreshId(c) ==
    CHOOSE i \in 1..(Cardinality(c.frames) + 1) : \A f \in c.frames : f.id # i

\* animationFrameId.current = requestAnimationFrame(animate)
requestAnimationFrame(c, animate) ==
    [c EXCEPT !.frames = @ \cup {[id |-> FreshId(c), animate |-> animate]},
              !.animationFrameId = FreshId(c)]

cancelAnimationFrame(c, id) ==
    [c EXCEPT !.frames = {f \in @ : f.id # id}]

\* a cleanup that forgets to cancel the pending frame
EffectCleanupKeepsFrame(c) == c

\* the cleanup function returned by the effect
EffectCleanup(c) ==
    IF c.animationFrameId # 0 THEN cancelAnimationFrame(c, c.animationFrameId) ELSE c

\* an effect body that leaves lastUpdateTime as the last frame wrote it
EffectBodyKeepsClock(c) ==
    IF c.rendered.isPlaying
    THEN requestAnimationFrame(c, c.rendered)
    ELSE IF c.animationFrameId # 0
         THEN cancelAnimationFrame(c, c.animationFrameId)
         ELSE c

\* the body of the effect, run with the closures of the committed render
EffectBody(c) ==
    IF c.rendered.isPlaying
    THEN requestAnimationFrame([c EXCEPT !.lastUpdateTime = 0], c.rendered)
    ELSE IF c.animationFrameId # 0
         THEN [cancelAnimationFrame(c, c.animationFrameId) EXCEPT !.lastUpdateTime = 0]
         ELSE c

\* React re-runs the effect: the previous cleanup, then the body.
RunEffect(c) == [EffectBody(EffectCleanup(c)) EXCEPT !.effectPending = FALSE]

\* A re-render is committed.  animate is recreated when value, max, min or
\* speed changed, and the effect's deps are [isPlaying, animate], so the
\* effect re-runs exactly when the captured record changed.
Commit(c, props) ==
    IF props = c.rendered THEN c
    ELSE [c EXCEPT !.rendered = props, !.effectPending = TRUE]

\* A synchronous render (a discrete event such as a click): pending effects
\* are flushed, the render is committed and its effects run before the
\* event returns.
FlushSync(c, props) ==
    LET a == IF c.effectPending THEN RunEffect(c) ELSE c
        b == Commit(a, props)
    IN IF b.effectPending THEN RunEffect(b) ELSE b

SetControl(c) ==
    /\ rendered' = c.rendered
    /\ effectPending' = c.effectPending
    /\ animationFrameId' = c.animationFrameId
    /\ lastUpdateTime' = c.lastUpdateTime
    /\ frames' = c.frames

\* the simulated milliseconds animate adds for deltaTime real milliseconds
Increment(deltaTime, spd) == deltaTime * spd * (MS_PER_DAY \div 1000)

\* an animate without the wrap-around
AdvanceNoWrap(value, increment, min, max) == value + increment

\* an animate that stops at the end instead of wrapping
AdvanceClamp(value, increment, min, max) ==
    LET nextValue == value + increment
    IN IF nextValue >= max THEN max ELSE nextValue

\* the value animate hands to onChange
Advance(value, increment, min, max) ==
    LET nextValue == value + increment
    IN IF nextValue >= max THEN min ELSE nextValue

\* The Slider is given min and max and reports a position inside them.
SliderValue(position, min, max) ==
    IF position < min THEN min ELSE IF position > max THEN max ELSE position

\* positions a drag can ask for, some beyond either end of the track
ScrubPositions ==
    IF view = "crashed" \/ timeRange = NoRange THEN {}
    ELSE {minEventDay - MS_PER_DAY, minEventDay, minEventDay + MS_PER_DAY \div 2,
          maxEventDay, maxEventDay + MS_PER_DAY}

\* what the closures hold before RangeInput is rendered
NoProps == [value |-> Null, min |-> Null, max |-> Null,
            speed |-> InitialSpeed, isPlaying |-> FALSE]

NoScatter == [done |-> FALSE, filteredData |-> <<>>, maxViolations |-> 0,
              radius |-> <<>>, fill |-> <<>>]
\* the fields of a new ClusterViolationLayer (`this.filteredData || []` reads
\* its null as the empty list) and no output yet
NoCluster == [done |-> FALSE, filteredData |-> <<>>, maxDailyPoints |-> 1,
              dailyTotal |-> 0, clusters |-> {}]
NoHeatmap == [done |-> FALSE, filteredData |-> <<>>]

\* lastUpdateTime is written by animate (a timestamp) and by the effect
\* (0): after a step without a frame the interval it opens is still the
\* one the last animate opened, unless the effect has closed it.
ClockSpeedKept == IF lastUpdateTime' = 0 THEN Null ELSE clockSpeed

Init ==
    /\ fetchState = "pending"
    /\ data = <<>>
    /\ view = "shown"
    /\ currentTime = Null
    /\ speed = InitialSpeed
    /\ mounted = "no"
    /\ isPlaying = FALSE
    /\ rendered = NoProps
    /\ effectPending = FALSE
    /\ animationFrameId = 0
    /\ lastUpdateTime = 0
    /\ frames = {}
    /\ now = 0
    /\ ideal = Null
    /\ lastFrameAt = 0
    /\ lastScrub = Null
    /\ halted = "none"
    /\ clockSpeed = Null
    /\ zoom = 11
    /\ scatter = NoScatter
    /\ cluster = NoCluster
    /\ heatmap = NoHeatmap

-----------------------------------------------------------------------------
(* App actions                                                             *)

\* fetchData: response.ok and a parsed document with a features array
FetchSucceeds(doc) ==
    /\ fetchState = "pending"
    /\ fetchState' = "ok"
    /\ data' = doc
    /\ UNCHANGED <<view, currentTime, speed, rangeVars, histVars, layerVars>>

\* fetchData: the catch branch, taken when fetch rejects, when response.ok
\* is false and when response.json() rejects; nothing is set and fetchData
\* is not called again
FetchFails ==
    /\ fetchState = "pending"
    /\ fetchState' = "failed"
    /\ UNCHANGED <<data, view, currentTime, speed, rangeVars, histVars, layerVars>>

\* fetchData: response.ok and a parsed document that has no features
\* property.  Nothing throws inside the try: setData(jsonData.features)
\* stores undefined, and the render it causes reads data.length in the
\* timeRange memo, which throws; no error boundary surrounds App, so React
\* removes the whole tree.
FetchNoFeatures ==
    /\ fetchState = "pending"
    /\ fetchState' = "nofeatures"
    /\ data' = Undefined
    /\ view' = "crashed"
    /\ UNCHANGED <<currentTime, speed, rangeVars, histVars, layerVars>>

\* the effect that sets the initial current time; the render it causes
\* mounts RangeInput (isPlaying false, refs unset, nothing to cancel)
InitCurrentTime ==
    /\ view = "shown"
    /\ timeRange # NoRange
    /\ currentTime = Null
    /\ currentTime' = timeRange[1]
    /\ mounted' = "yes"
    /\ rendered' = Props(timeRange[1], speed, FALSE)
    /\ UNCHANGED <<fetchState, data, view, speed, isPlaying, effectPending,
                   animationFrameId, lastUpdateTime, frames, now, histVars, layerVars>>

\* the speed Slider's onChange; sync: the event is discrete (a press), else
\* the render is scheduled
SetSpeed(s, sync) ==
    /\ view = "shown"
    /\ mounted # "gone"
    /\ s # speed
    /\ speed' = s
    /\ IF mounted = "yes" /\ sync
       THEN SetControl(FlushSync(Control, Props(currentTime, s, isPlaying)))
       ELSE UNCHANGED <<rendered, effectPending, animationFrameId, lastUpdateTime, frames>>
    /\ ideal' = Null
    /\ lastFrameAt' = 0
    /\ clockSpeed' = ClockSpeedKept
    /\ UNCHANGED <<fetchState, data, view, currentTime, mounted, isPlaying, now,
                   lastScrub, halted, layerVars>>

-----------------------------------------------------------------------------
(* RangeInput actions                                                      *)

\* handlePlayPause, a click: setIsPlaying(!isPlaying) with the isPlaying of
\* the committed render, rendered synchronously
PlayPause ==
    /\ mounted = "yes"
    /\ LET playing == ~rendered.isPlaying
       IN /\ isPlaying' = playing
          /\ SetControl(FlushSync(Control, Props(currentTime, speed, playing)))
          /\ ideal' = IF playing THEN currentTime ELSE Null
          /\ lastFrameAt' = 0
          /\ lastScrub' = IF playing THEN Null ELSE lastScrub
          /\ halted' = IF playing THEN "none" ELSE "pause"
          /\ clockSpeed' = ClockSpeedKept
    /\ UNCHANGED <<appVars, mounted, now, layerVars>>

\* the time Slider's onChange: onChange(newValue); setIsPlaying(false)
Scrub(position, sync) ==
    /\ mounted = "yes"
    /\ LET newValue == SliderValue(position, rendered.min, rendered.max)
       IN /\ currentTime' = newValue
          /\ isPlaying' = FALSE
          /\ IF sync
             THEN SetControl(FlushSync(Control, Props(newValue, speed, FALSE)))
             ELSE UNCHANGED <<rendered, effectPending, animationFrameId,
                              lastUpdateTime, frames>>
          /\ lastScrub' = newValue
    /\ ideal' = Null
    /\ lastFrameAt' = 0
    /\ halted' = "none"
    /\ clockSpeed' = ClockSpeedKept
    /\ UNCHANGED <<fetchState, data, view, speed, mounted, now, layerVars>>

\* The browser runs a registered callback: animate(timestamp), with the
\* value, min, max and speed of the render that created it.
Frame(f, d) ==
    /\ mounted = "yes"
    /\ f \in frames
    /\ now + d <= MaxFrames * FrameMs
    /\ LET timestamp == now + d
           last      == IF lastUpdateTime = 0 THEN timestamp ELSE lastUpdateTime
           deltaTime == timestamp - last
           increment == Increment(deltaTime, f.animate.speed)
           fired     == [Control EXCEPT !.frames = @ \ {f},
                                        !.lastUpdateTime = timestamp]
       IN /\ currentTime' = Advance(f.animate.value, increment,
                                    f.animate.min, f.animate.max)
          /\ SetControl(requestAnimationFrame(fired, f.animate))
          /\ now' = timestamp
          /\ ideal' = IF ideal = Null THEN Null
                      ELSE Advance(ideal,
                                   IF lastFrameAt = 0 THEN 0
                                   ELSE Increment(timestamp - lastFrameAt, speed),
                                   minEventDay, maxEventDay)
          /\ lastFrameAt' = IF ideal = Null THEN 0 ELSE timestamp
          /\ clockSpeed' = f.animate.speed
    /\ UNCHANGED <<fetchState, data, view, speed, mounted, isPlaying, lastScrub,
                   halted, layerVars>>

\* React renders RangeInput with the current state and commits.
Render ==
    /\ mounted = "yes"
    /\ ~effectPending
    /\ Props(currentTime, speed, isPlaying) # rendered
    /\ SetControl(Commit(Control, Props(currentTime, speed, isPlaying)))
    /\ UNCHANGED <<appVars, mounted, isPlaying, now, histVars, layerVars>>

\* React runs the pending effect of the last commit.
FlushEffects ==
    /\ mounted = "yes"
    /\ effectPending
    /\ SetControl(RunEffect(Control))
    /\ clockSpeed' = ClockSpeedKept
    /\ UNCHANGED <<appVars, mounted, isPlaying, now, ideal, lastFrameAt, lastScrub,
                   halted, layerVars>>

\* The view is torn down: pending effects are flushed and the cleanup runs.
Unmount ==
    /\ mounted = "yes"
    /\ mounted' = "gone"
    /\ SetControl(EffectCleanup(IF effectPending THEN RunEffect(Control) ELSE Control))
    /\ ideal' = Null
    /\ lastFrameAt' = 0
    /\ halted' = "unmount"
    /\ clockSpeed' = ClockSpeedKept
    /\ UNCHANGED <<appVars, isPlaying, now, lastScrub, layerVars>>

Next ==
    \/ \E doc \in Documents : FetchSucceeds(doc)
    \/ FetchFails
    \/ FetchNoFeatures
    \/ InitCurrentTime
    \/ \E s \in SpeedChoices, sync \in BOOLEAN : SetSpeed(s, sync)
    \/ PlayPause
    \/ \E p \in ScrubPositions, sync \in BOOLEAN : Scrub(p, sync)
    \/ \E f \in frames, d \in FrameDeltas : Frame(f, d)
    \/ Render
    \/ FlushEffects
    \/ Unmount

Spec == Init /\ [][Next]_vars

\* React has rendered the current state and run the effects of that render.
Settled == ~effectPending /\ Props(currentTime, speed, isPlaying) = rendered

\* The schedule without races: the browser runs a frame only once React has
\* rendered and run the effects of every earlier update.
NextSettled ==
    \/ \E doc \in Documents : FetchSucceeds(doc)
    \/ FetchFails
    \/ FetchNoFeatures
    \/ InitCurrentTime
    \/ \E s \in SpeedChoices, sync \in BOOLEAN : SetSpeed(s, sync)
    \/ PlayPause
    \/ \E p \in ScrubPositions, sync \in BOOLEAN : Scrub(p, sync)
    \/ \E f \in frames, d \in FrameDeltas : Settled /\ Frame(f, d)
    \/ Render
    \/ FlushEffects
    \/ Unmount

SpecSettled == Init /\ [][NextSettled]_vars

-----------------------------------------------------------------------------
(* Playback claims                                                         *)

C2_AdvanceByElapsed == ideal # Null => currentTime = ideal

\* C3: after a scrub to v the control is Paused at exactly v until play is
\* pressed: no frame callback overwrites v.
C3_ScrubSticks == lastScrub # Null => (currentTime = lastScrub /\ ~isPlaying)

\* the value a frame computes: the captured value plus its increment
NextValue(f, d) ==
    LET timestamp == now + d
        last      == IF lastUpdateTime = 0 THEN timestamp ELSE lastUpdateTime
    IN f.animate.value + Increment(timestamp - last, f.animate.speed)

\* C4: when a frame fires while Playing and its advanced value reaches or
\* exceeds maxEventDay, currentTime becomes exactly minEventDay, the state
\* stays Playing and another frame is scheduled.
C4_WrapToMin ==
    [][\A f \in frames, d \in FrameDeltas :
          (Frame(f, d) /\ isPlaying /\ NextValue(f, d) >= maxEventDay)
              => (currentTime' = minEventDay /\ isPlaying' /\ frames' # {})]_vars

\* a playing control whose latest frame wrapped a value inside the range
\* back to the start
C4_Witness ==
    /\ isPlaying
    /\ rendered.isPlaying
    /\ lastScrub = Null
    /\ rendered.value > minEventDay
    /\ rendered.value < maxEventDay
    /\ currentTime = minEventDay
    /\ frames # {}

\* C5: after pause is pressed, or after the control is unmounted, no frame
\* is pending, none runs, and currentTime stays as it is until play is
\* pressed or a scrub occurs.
C5_StopCancelsFrame ==
    /\ [](halted # "none" => frames = {})
    /\ [][(halted # "none" /\ halted' = halted)
             => (currentTime' = currentTime /\ now' = now)]_vars

\* paused in the middle of a playback that had advanced the time
C5_Witness ==
    /\ halted = "pause"
    /\ now >= 2 * FrameMs
    /\ currentTime # minEventDay
    /\ lastScrub = Null

-----------------------------------------------------------------------------
(* The layers: numbers                                                     *)

\* A JavaScript number that need not be an integer, as the exact fraction
\* <<numerator, denominator>> with a positive denominator.
Rat(n, d) == <<n, d>>
RatEq(a, b)  == a[1] * b[2] = b[1] * a[2]
RatLeq(a, b) == a[1] * b[2] <= b[1] * a[2]
RatMin(a, b) == IF RatLeq(a, b) THEN a ELSE b

\* Math.max over a set of counts: -Infinity for no argument
MathMax(S) == IF S = {} THEN -Infinity ELSE CHOOSE m \in S : \A x \in S : x <= m

\* count / max for a positive count: dividing by -Infinity gives (minus) zero
Quotient(count, max) == IF max = -Infinity THEN Rat(0, 1) ELSE Rat(count, max)

Indices(feats) == 1..Len(feats)

-----------------------------------------------------------------------------
(* ViolationLayer                                                          *)

MIN_SIZE == 5
MAX_SIZE == 50
RecentDays == 7
AlphaCurrentDay == 255
AlphaOtherDay == 180
AlphaNoDate == 200

\* const selectedDate = currentTime ? startOfDay(currentTime) : null
SelectedDate(time) == IF time = Null THEN Null ELSE startOfDay(time)

\* filteredData of ViolationLayer.renderLayers
ScatterFilter(feats, selectedDate) ==
    IF selectedDate = Null THEN feats
    ELSE SelectSeq(feats, LAMBDA feature :
             ~isAfter(parseISO(feature.ViolationDate), selectedDate))

\* getViolationCounts: respondent -> number of features, absent ones skipped
getViolationCounts(feats) ==
    [r \in {feats[i].Respondent : i \in Indices(feats)} \ {""} |->
        Cardinality({i \in Indices(feats) : feats[i].Respondent = r})]

CountValues(counts) == {counts[r] : r \in DOMAIN counts}

\* getRadius of the scatterplot
getRadius(d, selectedDate) ==
    IF selectedDate = Null THEN Rat(MIN_SIZE, 1)
    ELSE LET violationDate == parseISO(d.ViolationDate)
             isCurrentDay == isSameDay(violationDate, selectedDate)
             daysDifference == (selectedDate - violationDate) \div MS_PER_DAY
         IN IF isCurrentDay THEN Rat(MAX_SIZE, 1)
            ELSE IF daysDifference < 0 THEN Rat(0, 1)
            ELSE IF daysDifference <= RecentDays
                 THEN Rat(MIN_SIZE * RecentDays
                            + (MAX_SIZE - MIN_SIZE) * (RecentDays - daysDifference),
                          RecentDays)
            ELSE Rat(MIN_SIZE, 1)

\* getFillColor of the scatterplot: the alpha is
\* ceiling * (sqrt(ratio) * 0.3 + 0.7), kept as its ceiling and its ratio
getFillColor(d, selectedDate, violationCounts, maxViolations) ==
    IF selectedDate = Null THEN [ceiling |-> AlphaNoDate, ratio |-> Rat(1, 1)]
    ELSE LET isCurrentDay == isSameDay(parseISO(d.ViolationDate), selectedDate)
             count == IF d.Respondent \in DOMAIN violationCounts
                      THEN violationCounts[d.Respondent] ELSE 1
         IN [ceiling |-> IF isCurrentDay THEN AlphaCurrentDay ELSE AlphaOtherDay,
             ratio |-> Quotient(count, maxViolations)]

\* ViolationLayer.renderLayers
ScatterLayer(feats, time) ==
    LET selectedDate == SelectedDate(time)
        filteredData == ScatterFilter(feats, selectedDate)
        violationCounts == getViolationCounts(filteredData)
        maxViolations == MathMax(CountValues(violationCounts))
    IN [done |-> TRUE,
        filteredData |-> filteredData,
        maxViolations |-> maxViolations,
        radius |-> [i \in Indices(filteredData) |->
                       getRadius(filteredData[i], selectedDate)],
        fill |-> [i \in Indices(filteredData) |->
                     getFillColor(filteredData[i], selectedDate,
                                  violationCounts, maxViolations)]]

-----------------------------------------------------------------------------
(* ViolationHeatmapLayer                                                   *)

\* filteredData of ViolationHeatmapLayer.renderLayers
HeatmapFilter(feats, selectedDate) ==
    IF selectedDate = Null THEN feats
    ELSE SelectSeq(feats, LAMBDA feature :
             ~isAfter(parseISO(feature.ViolationDate), selectedDate))

HeatmapLayer(feats, time) ==
    [done |-> TRUE, filteredData |-> HeatmapFilter(feats, SelectedDate(time))]

-----------------------------------------------------------------------------
(* ClusterViolationLayer                                                   *)

MIN_RADIUS == 5
MAX_RADIUS == 100
ZOOM_THRESHOLD == 17
AlphaFloor == 200
AlphaFull == 255

\* this.filteredData of updateFilteredData
ClusterFilter(feats, selectedDate) ==
    IF selectedDate = Null THEN feats
    ELSE SelectSeq(feats, LAMBDA feature :
             ~isAfter(parseISO(feature.ViolationDate), selectedDate))

\* dailyCounts of updateFilteredData: filled only when a date is selected
DailyCounts(filteredData, selectedDate) ==
    IF selectedDate = Null THEN {}
    ELSE LET dateKey(i) == startOfDay(parseISO(filteredData[i].ViolationDate))
         IN {Cardinality({j \in Indices(filteredData) : dateKey(j) = dateKey(i)}) :
                i \in Indices(filteredData)}

\* a maximum taken over the total of the filtered data
MaxDailyPointsTotal(filteredData, selectedDate) == Max(1, Len(filteredData))

\* this.maxDailyPoints = Math.max(1, ...dailyCounts.values())
MaxDailyPoints(filteredData, selectedDate) ==
    MathMax({1} \cup DailyCounts(filteredData, selectedDate))

\* dailyTotal of createClusters, before Math.max(dailyTotal, 1)
DailyTotal(filteredData, selectedDate) ==
    IF selectedDate = Null THEN 0
    ELSE Cardinality({i \in Indices(filteredData) :
             isSameDay(parseISO(filteredData[i].ViolationDate), selectedDate)})

\* a scale that runs from maxRadius downwards
getScaledRadiusInverted(pointCount, dailyTotal, filteredData, maxDailyPoints) ==
    IF dailyTotal = 0 \/ Len(filteredData) = 0 THEN Rat(MIN_RADIUS, 1)
    ELSE Rat(MAX_RADIUS * maxDailyPoints - pointCount * (MAX_RADIUS - MIN_RADIUS),
             maxDailyPoints)

getScaledRadius(pointCount, dailyTotal, filteredData, maxDailyPoints) ==
    IF dailyTotal = 0 \/ Len(filteredData) = 0 THEN Rat(MIN_RADIUS, 1)
    ELSE Rat(MIN_RADIUS * maxDailyPoints + pointCount * (MAX_RADIUS - MIN_RADIUS),
             maxDailyPoints)

\* d.properties.point_count || 1: an absent or zero count reads as 1
PointCountOrOne(d) ==
    IF d.point_count = Null \/ d.point_count = 0 THEN 1 ELSE d.point_count

\* getRadius of the cluster scatterplot
clusterRadius(d, dailyTotal, filteredData, maxDailyPoints) ==
    IF d.cluster
    THEN getScaledRadius(PointCountOrOne(d), dailyTotal, filteredData, maxDailyPoints)
    ELSE Rat(MIN_RADIUS, 1)

\* getFillColor of the cluster scatterplot: the alpha
clusterAlpha(d, dailyTotal) ==
    RatMin(Rat(PointCountOrOne(d) * AlphaFull + AlphaFloor * dailyTotal, dailyTotal),
           Rat(AlphaFull, 1))

RECURSIVE Partitions(_)
\* every way to split a set into disjoint non-empty groups
Partitions(S) ==
    IF S = {} THEN {{}}
    ELSE LET x == CHOOSE y \in S : TRUE
         IN UNION { { P \cup {G \cup {x}} : P \in Partitions((S \ {x}) \ G) } :
                    G \in SUBSET (S \ {x}) }

\* What Supercluster (minPoints 2) returns for the loaded points: some
\* grouping of them, a group of two or more as a cluster with its leaves,
\* a single point as itself.  At or above ZOOM_THRESHOLD the layer wraps
\* every feature itself.  Members are indices into filteredData.
Groupings(filteredData, z) ==
    IF z >= ZOOM_THRESHOLD THEN {{{i} : i \in Indices(filteredData)}}
    ELSE Partitions(Indices(filteredData))

\* createClusters and the accessors of renderLayers, for one grouping.  At
\* or above ZOOM_THRESHOLD every feature is wrapped with cluster false and
\* point_count 1.  Below it an entry keeps the properties Supercluster gave
\* it: a cluster has cluster true and its point_count, a single point is the
\* loaded feature itself, whose properties have neither (cluster reads as
\* false, point_count is absent).
ClusterLayer(feats, time, z, grouping) ==
    LET selectedDate == SelectedDate(time)
        filteredData == ClusterFilter(feats, selectedDate)
        maxDailyPoints == MaxDailyPoints(filteredData, selectedDate)
        dailyTotal == Max(DailyTotal(filteredData, selectedDate), 1)
        shape(G) == [cluster |-> z < ZOOM_THRESHOLD /\ Cardinality(G) >= 2,
                     point_count |-> IF z >= ZOOM_THRESHOLD THEN 1
                                     ELSE IF Cardinality(G) >= 2 THEN Cardinality(G)
                                     ELSE Null,
                     points |-> G]
        entry(G) == [cluster |-> shape(G).cluster,
                     point_count |-> shape(G).point_count,
                     points |-> G,
                     radius |-> clusterRadius(shape(G), dailyTotal,
                                              filteredData, maxDailyPoints),
                     alpha |-> clusterAlpha(shape(G), dailyTotal)]
    IN [done |-> TRUE,
        filteredData |-> filteredData,
        maxDailyPoints |-> maxDailyPoints,
        dailyTotal |-> dailyTotal,
        clusters |-> {entry(G) : G \in grouping}]

-----------------------------------------------------------------------------
(* The layers under every input                                            *)

FeatureKinds == {Feature(d, t, r) : d \in 1..MaxDay, t \in {0, TenHours}, r \in {"", "A"}}

\* position of a feature in date order
KindKey(f) ==
    4 * f.ViolationDate.day + (IF f.ViolationDate.tod = 0 THEN 0 ELSE 2)
      + (IF f.Respondent = "" THEN 0 ELSE 1)

\* every collection of up to MaxEvents features, listed in date order
DataLists ==
    {feats \in UNION {[1..n -> FeatureKinds] : n \in 0..MaxEvents} :
        \A i, j \in Indices(feats) : i < j => KindKey(feats[i]) <= KindKey(feats[j])}

SixHours == 6 * (MS_PER_DAY \div 24)

\* unset, or some time of some day
LayerTimes == {Null} \cup {d * MS_PER_DAY + o : d \in 1..MaxDay, o \in {0, SixHours}}

Zooms == {11, ZOOM_THRESHOLD}

InitLayers ==
    /\ fetchState = "ok"
    /\ data \in DataLists
    /\ view = "shown"
    /\ currentTime \in LayerTimes
    /\ zoom \in Zooms
    /\ speed = InitialSpeed
    /\ mounted = "no"
    /\ isPlaying = FALSE
    /\ rendered = NoProps
    /\ effectPending = FALSE
    /\ animationFrameId = 0
    /\ lastUpdateTime = 0
    /\ frames = {}
    /\ now = 0
    /\ ideal = Null
    /\ lastFrameAt = 0
    /\ lastScrub = Null
    /\ halted = "none"
    /\ clockSpeed = Null
    /\ scatter = NoScatter
    /\ cluster = NoCluster
    /\ heatmap = NoHeatmap

\* App mounts one layer (its `layers` array): a run renders one of the three.
RenderScatter ==
    /\ ~cluster.done /\ ~heatmap.done
    /\ scatter' = ScatterLayer(data, currentTime)
    /\ UNCHANGED <<appVars, rangeVars, histVars, zoom, cluster, heatmap>>

RenderCluster(grouping) ==
    /\ ~scatter.done /\ ~heatmap.done
    /\ cluster' = ClusterLayer(data, currentTime, zoom, grouping)
    /\ UNCHANGED <<appVars, rangeVars, histVars, zoom, scatter, heatmap>>

RenderHeatmap ==
    /\ ~scatter.done /\ ~cluster.done
    /\ heatmap' = HeatmapLayer(data, currentTime)
    /\ UNCHANGED <<appVars, rangeVars, histVars, zoom, scatter, cluster>>

NextLayers ==
    \/ RenderScatter
    \/ \E grouping \in Groupings(ClusterFilter(data, SelectedDate(currentTime)), zoom) :
           RenderCluster(grouping)
    \/ RenderHeatmap

SpecLayers == InitLayers /\ [][NextLayers]_vars

-----------------------------------------------------------------------------
(* Layer claims                                                            *)

\* the calendar day an instant falls on
DayOf(t) == t \div MS_PER_DAY
EventDay(f) == DayOf(parseISO(f.ViolationDate))
Members(feats) == {feats[i] : i \in Indices(feats)}

\* the events on or before the calendar day of the reference; all if unset
OnOrBefore(feats, time) ==
    IF time = Null THEN feats
    ELSE SelectSeq(feats, LAMBDA e : EventDay(e) <= DayOf(time))

\* C6: the filter returns exactly the events whose calendar day is on or
\* before the calendar day of the reference (all events when it is unset),
\* it grows with the reference, and the point, cluster and heatmap layers
\* apply the same filter.
C6_FilterByCalendarDay ==
    /\ scatter.done => scatter.filteredData = OnOrBefore(data, currentTime)
    /\ cluster.done => cluster.filteredData = OnOrBefore(data, currentTime)
    /\ heatmap.done => heatmap.filteredData = OnOrBefore(data, currentTime)
    /\ \A d1, d2 \in LayerTimes \ {Null} :
          d1 <= d2 => Members(ScatterFilter(data, SelectedDate(d1)))
                        \subseteq Members(ScatterFilter(data, SelectedDate(d2)))

\* the radius the rule gives for a number of calendar days since the event
RadiusRule(time, daysSince) ==
    IF time = Null THEN Rat(MIN_SIZE, 1)
    ELSE IF daysSince < 0 THEN Rat(0, 1)
    ELSE IF daysSince = 0 THEN Rat(MAX_SIZE, 1)
    ELSE IF daysSince <= RecentDays
         THEN Rat(MIN_SIZE * RecentDays + (MAX_SIZE - MIN_SIZE) * (RecentDays - daysSince),
                  RecentDays)
    ELSE Rat(MIN_SIZE, 1)

DaysSince(e, time) == DayOf(time) - EventDay(e)

\* C7: the radius of every rendered point is the rule's value for
\* daysSince = referenceDay - day(event), so it never grows with daysSince.
C7_RadiusByDaysSince ==
    scatter.done =>
        LET shown == scatter.filteredData
        IN /\ \A i \in Indices(shown) :
                 RatEq(scatter.radius[i],
                       RadiusRule(currentTime, DaysSince(shown[i], currentTime)))
           /\ \A i, j \in Indices(shown) :
                 (currentTime # Null
                    /\ 0 <= DaysSince(shown[i], currentTime)
                    /\ DaysSince(shown[i], currentTime) <= DaysSince(shown[j], currentTime))
                 => RatLeq(scatter.radius[j], scatter.radius[i])

\* number of filtered events on calendar day d
OnDay(feats, d) == Cardinality({i \in Indices(feats) : EventDay(feats[i]) = d})

\* the largest number of filtered events sharing one calendar day, at least
\* 1, and 1 when no reference is set
LargestDayCount(feats, time) ==
    IF time = Null THEN 1
    ELSE CHOOSE m \in 1..(Len(feats) + 1) :
            /\ \A d \in 1..MaxDay : OnDay(feats, d) <= m
            /\ m = 1 \/ \E d \in 1..MaxDay : OnDay(feats, d) = m

\* the number of filtered events on the reference day, at least 1
SameDayCount(feats, time) ==
    IF time = Null THEN 1 ELSE Max(OnDay(feats, DayOf(time)), 1)

ScaledBy(c, divisor) ==
    IF c.cluster
    THEN Rat(MIN_RADIUS * divisor + c.point_count * (MAX_RADIUS - MIN_RADIUS), divisor)
    ELSE Rat(MIN_RADIUS, 1)

\* C8 as stated: the divisor of a cluster's radius is the number of filtered
\* events on the reference day.
C8_RadiusBySameDayCount ==
    cluster.done =>
        \A c \in cluster.clusters :
            RatEq(c.radius,
                  ScaledBy(c, SameDayCount(cluster.filteredData, currentTime)))

\* C8 (amended): the radius of a cluster is
\* MIN_RADIUS + (pointCount / m) * (MAX_RADIUS - MIN_RADIUS) where m,
\* recomputed by every filter pass, is the largest number of filtered events
\* sharing one calendar day (at least 1; 1 when the reference is unset);
\* a single point gets MIN_RADIUS.
C8_RadiusByLargestDayCount ==
    cluster.done =>
        /\ cluster.maxDailyPoints = LargestDayCount(cluster.filteredData, currentTime)
        /\ \A c \in cluster.clusters :
              RatEq(c.radius,
                    ScaledBy(c, LargestDayCount(cluster.filteredData, currentTime)))

\* a cluster rendered while the busiest day is not the reference day
C8_Witness ==
    /\ cluster.done
    /\ currentTime # Null
    /\ \E c \in cluster.clusters : c.cluster
    /\ \E c \in cluster.clusters : ~c.cluster
    /\ SameDayCount(cluster.filteredData, currentTime)
         < LargestDayCount(cluster.filteredData, currentTime)

\* C9: the cluster radius never shrinks as pointCount grows under one
\* maximum, and is at least MIN_RADIUS for every entry, a cluster with no
\* event on the reference day included.
C9_ClusterRadiusMonotone ==
    cluster.done =>
        /\ \A c \in cluster.clusters : RatLeq(Rat(MIN_RADIUS, 1), c.radius)
        /\ \A c1, c2 \in cluster.clusters :
              c1.point_count <= c2.point_count => RatLeq(c1.radius, c2.radius)
        /\ \A n \in 1..MaxEvents :
              LET r(k) == getScaledRadius(k, cluster.dailyTotal, cluster.filteredData,
                                          cluster.maxDailyPoints)
              IN RatLeq(Rat(MIN_RADIUS, 1), r(n)) /\ RatLeq(r(n), r(n + 1))

\* a cluster none of whose events is on the reference day, beside a single
\* point
C9_Witness ==
    /\ cluster.done
    /\ currentTime # Null
    /\ \E c1, c2 \in cluster.clusters :
          /\ c1.cluster
          /\ ~c2.cluster
          /\ \A i \in c1.points :
                EventDay(cluster.filteredData[i]) # DayOf(currentTime)

\* C10: when the event set is empty or no filtered event has a respondent,
\* the maximum respondent count and the maximum same-day count are 1, the
\* frequency multiplier is 0.7 + 0.3 * sqrt(count / 1), and no maximum,
\* radius or alpha is infinite, negative or undefined.
C10_DegenerateMaxIsOne ==
    /\ (scatter.done /\ \A e \in Members(scatter.filteredData) : e.Respondent = "") =>
          /\ scatter.maxViolations = 1
          /\ \A i \in Indices(scatter.filteredData) :
                /\ currentTime # Null => RatEq(scatter.fill[i].ratio, Rat(1, 1))
                /\ RatLeq(Rat(0, 1), scatter.radius[i])
    /\ (cluster.done /\ cluster.filteredData = <<>>) =>
          /\ cluster.maxDailyPoints = 1
          /\ cluster.dailyTotal = 1
          /\ cluster.clusters = {}

-----------------------------------------------------------------------------
(* Load, clustering, speed and frame-registry claims                       *)

\* the data load has ended in one of its failing outcomes
LoadFailed == fetchState \in {"failed", "nofeatures"}

\* C11: after every failing outcome of the one-shot load (rejected fetch,
\* non-success status, unparsable body, document without a features array)
\* data is still the empty list, currentTime is unset, the time control is
\* not shown, and the view is still rendering.
C11_FailedLoadKeepsEmptyView ==
    LoadFailed =>
        /\ data = <<>>
        /\ currentTime = Null
        /\ mounted = "no"
        /\ view = "shown"

\* C12: the member lists of the entries createClusters returns partition
\* the filtered set, no member is later than the reference day, every
\* entry's point_count is the size of its member list, at or above
\* ZOOM_THRESHOLD there is one entry of point_count 1 per filtered event,
\* and below it every entry flagged as a cluster has at least 2 members.
C12_ClustersPartitionFiltered ==
    cluster.done =>
        /\ UNION {c.points : c \in cluster.clusters} = Indices(cluster.filteredData)
        /\ \A c1, c2 \in cluster.clusters :
              c1 # c2 => c1.points \cap c2.points = {}
        /\ \A c \in cluster.clusters :
              /\ c.points # {}
              /\ c.point_count = Cardinality(c.points)
              /\ currentTime # Null =>
                    \A i \in c.points :
                        EventDay(cluster.filteredData[i]) <= DayOf(currentTime)
              /\ zoom >= ZOOM_THRESHOLD => (c.point_count = 1 /\ ~c.cluster)
              /\ (zoom < ZOOM_THRESHOLD /\ c.cluster) => Cardinality(c.points) >= 2
        /\ zoom >= ZOOM_THRESHOLD =>
              Cardinality(cluster.clusters) = Len(cluster.filteredData)

SpeedSetOnlyBySlider ==
    speed' # speed =>
        /\ \E s \in SpeedChoices, sync \in BOOLEAN : SetSpeed(s, sync)
        /\ isPlaying' = isPlaying
        /\ currentTime' = currentTime

SpeedNotRetroactive ==
    \A f \in frames, d \in FrameDeltas :
        (Frame(f, d) /\ lastUpdateTime # 0) => f.animate.speed = clockSpeed

\* C13: speed is always in SpeedMin..SpeedMax; only the speed slider changes
\* it (play, pause, scrub and frames leave it as it is), and that step
\* changes neither isPlaying nor currentTime; and a frame multiplies the
\* real time elapsed since lastUpdateTime by the speed of the animate that
\* opened that interval, so a new speed is never applied to time that had
\* elapsed before it reached animate.
C13_SpeedIndependent ==
    /\ [](speed \in SpeedMin..SpeedMax)
    /\ [][SpeedSetOnlyBySlider /\ SpeedNotRetroactive]_vars

\* playing at a speed other than the initial one, a frame of an animate that
\* holds the new speed having advanced the time
C13_Witness ==
    /\ isPlaying
    /\ speed # InitialSpeed
    /\ rendered.speed = speed
    /\ clockSpeed = speed
    /\ lastUpdateTime # 0
    /\ now >= 3 * FrameMs
    /\ currentTime > minEventDay

\* C14: in every reachable state at most one animation-frame callback is
\* registered, and none while the control is Paused or unmounted.
C14_AtMostOneFrame ==
    /\ Cardinality(frames) <= 1
    /\ (~isPlaying \/ mounted # "yes") => frames = {}

====
